---- MODULE Spec2Model ----
(***************************************************************************)
(* Model of the tus-demo repository: the React upload component            *)
(* (frontend/src/App.tsx) driving tus-js-client uploads, and the Express   *)
(* proxy described in the accompanying notes.                              *)
(*                                                                         *)
(* The component state is the five useState cells of App.  The uploads the *)
(* component created are kept in the sequence tus; the index of an upload  *)
(* in tus stands for the tus.Upload object.  null / "" are modelled by 0.  *)
(* Every handler is one action and includes the re-render that follows it  *)
(* and the effects that re-render runs.                                    *)
(***************************************************************************)
EXTENDS Integers, Sequences, FiniteSets, TLC

(* ------------------------------ bounds --------------------------------- *)

\* Uploads the component may create in one run.
MaxUploads == 2

\* Files the user can pick: file 1 is empty, file f holds (f - 1) * BigSize
\* bytes.
NumFiles == 2

\* Size unit in bytes of the non-empty files: large enough for one byte to
\* be less than half a hundredth of a percent.
BigSize == 40000

(* --------------------------- program constants ------------------------- *)

\* toFixed(2): two decimals, so percentages are kept in hundredths.
Decimals == 2

Scale == 10 ^ Decimals

\* 100 percent, in hundredths.
Full == 100 * Scale

VARIABLES
    file,          \* useState<File | null>: 0 is null
    progress,      \* useState(0): the percentage, in hundredths
    uploadStatus,  \* useState(""): the status line
    mediaId,       \* useState(""): 0 is ""
    upload,        \* useState<tus.Upload | null>: 0 is null, else index in tus
    mounted,       \* whether the component is mounted
    tus,           \* the tus.Upload objects created so far
    fetches,       \* the status request of each upload
    http           \* the exchanges the proxy server has taken part in

vars == <<file, progress, uploadStatus, mediaId, upload, mounted, tus, fetches, http>>

appVars == <<file, progress, uploadStatus, mediaId, upload, mounted, tus, fetches>>

Files == 1..NumFiles

\* file.size of the files the user can pick.
FileSize(f) == BigSize * (f - 1)

\* Error messages the upload library may report.
Messages == {"network", "server"}

\* The status line: kind names the template, pct and msg fill it.
St(kind, pct, msg) == [kind |-> kind, pct |-> pct, msg |-> msg]

StInitial   == St("", 0, "")
StSelected  == St("File selected", 0, "")
StNoFile    == St("Please select a file first", 0, "")
StStarting  == St("Starting upload...", 0, "")
StComplete  == St("Upload complete! Video is now processing.", 0, "")
StCancelled == St("Upload cancelled", 0, "")
StFailed(m)    == St("Upload failed: ", 0, m)
StUploading(p) == St("Uploading: %", p, "")

\* A percentage cut off after two decimals instead of rounded.
ToFixed2Truncating(bytesUploaded, bytesTotal) ==
    (Full * bytesUploaded) \div bytesTotal

\* ((bytesUploaded / bytesTotal) * 100).toFixed(2), in hundredths: the
\* nearest hundredth, a tie going up.
ToFixed2(bytesUploaded, bytesTotal) ==
    (2 * Full * bytesUploaded + bytesTotal) \div (2 * bytesTotal)

\* The byte counts the library may report for an upload of the given size.
ProgressPoints(size) ==
    {b \in {0, 1, size \div 2, size - 1, size} : 0 <= b /\ b <= size}

AllProgressPoints == UNION {ProgressPoints(FileSize(f)) : f \in Files}

\* The media ID the video API registered for upload u.
MediaIdOf(u) == u

(* ------------------------------ rendering ------------------------------ *)

CancelRendered == progress > 0 /\ progress < Full

UploadDisabled == file = 0 \/ (progress > 0 /\ progress < Full)

MediaInfoRendered == mediaId # 0

(* ------------------------------ the library ---------------------------- *)

NewUpload(f) ==
    [file |-> f, state |-> "running", sent |-> 0, error |-> "", abortCalled |-> FALSE]

\* upload.abort(): stops a running upload; the library calls no callback of
\* an aborted upload.
Abort(t, u) ==
    [t EXCEPT ![u].state = IF @ = "running" THEN "aborted" ELSE @,
              ![u].abortCalled = TRUE]

\* The cleanup of the effect, closed over the upload of the render that
\* registered it.
Cleanup(t, u) == IF u # 0 THEN Abort(t, u) ELSE t

Running(u) == u \in 1..Len(tus) /\ tus[u].state = "running"

(* ------------------------------ handlers ------------------------------- *)

Init ==
    /\ file = 0
    /\ progress = 0
    /\ uploadStatus = StInitial
    /\ mediaId = 0
    /\ upload = 0
    /\ mounted = TRUE
    /\ tus = <<>>
    /\ fetches = <<>>
    /\ http = <<>>

\* handleFileChange(e) that also aborts the upload in progress.
HandleFileChangeAbortsUpload(sel) ==
    /\ IF Len(sel) > 0 /\ sel[1] # 0
       THEN /\ file' = sel[1]
            /\ uploadStatus' = StSelected
            /\ progress' = 0
            /\ tus' = Cleanup(tus, upload)
       ELSE UNCHANGED <<file, uploadStatus, progress, tus>>
    /\ UNCHANGED <<mediaId, upload, mounted, fetches, http>>

\* handleFileChange(e), e.target.files being the sequence sel.
HandleFileChange(sel) ==
    /\ IF Len(sel) > 0 /\ sel[1] # 0
       THEN /\ file' = sel[1]
            /\ uploadStatus' = StSelected
            /\ progress' = 0
       ELSE UNCHANGED <<file, uploadStatus, progress>>
    /\ UNCHANGED <<mediaId, upload, mounted, tus, fetches, http>>

\* handleUpload() with an effect that is not re-run when upload changes.
HandleUploadNoCleanup ==
    IF file = 0
    THEN /\ uploadStatus' = StNoFile
         /\ UNCHANGED <<file, progress, mediaId, upload, mounted, tus, fetches, http>>
    ELSE /\ uploadStatus' = StStarting
         /\ tus' = Append(tus, NewUpload(file))
         /\ fetches' = Append(fetches, "none")
         /\ upload' = Len(tus) + 1
         /\ UNCHANGED <<file, progress, mediaId, mounted, http>>

\* handleUpload() that starts the upload without storing it.
HandleUploadNotStored ==
    IF file = 0
    THEN /\ uploadStatus' = StNoFile
         /\ UNCHANGED <<file, progress, mediaId, upload, mounted, tus, fetches, http>>
    ELSE /\ uploadStatus' = StStarting
         /\ tus' = Append(tus, NewUpload(file))
         /\ fetches' = Append(fetches, "none")
         /\ UNCHANGED <<file, progress, mediaId, upload, mounted, http>>

\* handleUpload(), then the re-render on the new upload state, which runs
\* the cleanup of the effect registered for the previous one.
HandleUpload ==
    IF file = 0
    THEN /\ uploadStatus' = StNoFile
         /\ UNCHANGED <<file, progress, mediaId, upload, mounted, tus, fetches, http>>
    ELSE /\ uploadStatus' = StStarting
         /\ tus' = Append(Cleanup(tus, upload), NewUpload(file))
         /\ fetches' = Append(fetches, "none")
         /\ upload' = Len(tus) + 1
         /\ UNCHANGED <<file, progress, mediaId, mounted, http>>

\* handleCancel()
HandleCancel ==
    IF upload # 0
    THEN /\ tus' = Abort(tus, upload)
         /\ uploadStatus' = StCancelled
         /\ UNCHANGED <<file, progress, mediaId, upload, mounted, fetches, http>>
    ELSE UNCHANGED vars

(* --------------------------- user interface ---------------------------- *)

Selections == {<<>>} \cup {<<f>> : f \in Files}

SelectFile(sel) ==
    /\ mounted
    /\ HandleFileChange(sel)

ClickUpload ==
    /\ mounted
    /\ ~UploadDisabled
    /\ Len(tus) < MaxUploads
    /\ HandleUpload

ClickCancel ==
    /\ mounted
    /\ CancelRendered
    /\ HandleCancel

(* ------------------------- library callbacks --------------------------- *)

OnProgress(u, bytesUploaded) ==
    /\ Running(u)
    /\ FileSize(tus[u].file) > 0
    /\ bytesUploaded \in ProgressPoints(FileSize(tus[u].file))
    /\ tus' = [tus EXCEPT ![u].sent = bytesUploaded]
    /\ progress' = ToFixed2(bytesUploaded, FileSize(tus[u].file))
    /\ uploadStatus' = StUploading(ToFixed2(bytesUploaded, FileSize(tus[u].file)))
    /\ UNCHANGED <<file, mediaId, upload, mounted, fetches, http>>

\* onError that also resets the progress bar.
OnErrorResetsProgress(u, m) ==
    /\ Running(u)
    /\ tus' = [tus EXCEPT ![u].state = "failed", ![u].error = m]
    /\ uploadStatus' = StFailed(m)
    /\ progress' = 0
    /\ UNCHANGED <<file, mediaId, upload, mounted, fetches, http>>

OnError(u, m) ==
    /\ Running(u)
    /\ tus' = [tus EXCEPT ![u].state = "failed", ![u].error = m]
    /\ uploadStatus' = StFailed(m)
    /\ UNCHANGED <<file, progress, mediaId, upload, mounted, fetches, http>>

\* The library reports success once every byte is acknowledged.
OnSuccess(u) ==
    /\ Running(u)
    /\ tus[u].sent = FileSize(tus[u].file)
    /\ tus' = [tus EXCEPT ![u].state = "succeeded"]
    /\ uploadStatus' = StComplete
    /\ fetches' = [fetches EXCEPT ![u] = "pending"]
    /\ UNCHANGED <<file, progress, mediaId, upload, mounted, http>>

Outcomes == {"ok", "nofield", "failed"}

\* The status request of upload u settles: a response carrying the media
\* ID, a response without a mediaId field, or a failed request.  A state
\* update of an unmounted component is dropped.
FetchSettle(u, outcome) ==
    /\ u \in 1..Len(fetches)
    /\ fetches[u] = "pending"
    /\ fetches' = [fetches EXCEPT ![u] = outcome]
    /\ mediaId' = IF ~mounted \/ outcome = "failed" THEN mediaId
                  ELSE IF outcome = "ok" THEN MediaIdOf(u)
                  ELSE 0
    /\ UNCHANGED <<file, progress, uploadStatus, upload, mounted, tus, http>>

\* An unmount of a component that registered no cleanup.
UnmountNoCleanup ==
    /\ mounted
    /\ mounted' = FALSE
    /\ UNCHANGED <<file, progress, uploadStatus, mediaId, upload, tus, fetches, http>>

\* The component unmounts: the cleanup of the current effect runs.
Unmount ==
    /\ mounted
    /\ mounted' = FALSE
    /\ tus' = Cleanup(tus, upload)
    /\ UNCHANGED <<file, progress, uploadStatus, mediaId, upload, fetches, http>>

Uploads == 1..MaxUploads

Next ==
    \/ \E sel \in Selections : SelectFile(sel)
    \/ ClickUpload
    \/ ClickCancel
    \/ \E u \in Uploads : \E b \in AllProgressPoints : OnProgress(u, b)
    \/ \E u \in Uploads : \E m \in Messages : OnError(u, m)
    \/ \E u \in Uploads : OnSuccess(u)
    \/ \E u \in Uploads : \E o \in Outcomes : FetchSettle(u, o)
    \/ Unmount

Spec == Init /\ [][Next]_vars

\* A status request always settles: the promise of fetch resolves or rejects.
FairSpec ==
    /\ Spec
    /\ \A u \in Uploads : WF_vars(\E o \in Outcomes : FetchSettle(u, o))

(* ------------------- the handlers invoked directly --------------------- *)

CallFileChange(sel) ==
    /\ mounted
    /\ HandleFileChange(sel)

CallUpload ==
    /\ mounted
    /\ Len(tus) < MaxUploads
    /\ HandleUpload

CallCancel ==
    /\ mounted
    /\ HandleCancel

DirectNext ==
    \/ \E sel \in Selections : CallFileChange(sel)
    \/ CallUpload
    \/ CallCancel
    \/ \E u \in Uploads : \E b \in AllProgressPoints : OnProgress(u, b)
    \/ \E u \in Uploads : \E m \in Messages : OnError(u, m)
    \/ \E u \in Uploads : OnSuccess(u)
    \/ \E u \in Uploads : \E o \in Outcomes : FetchSettle(u, o)
    \/ Unmount

SpecDirect == Init /\ [][DirectNext]_vars

(* --------------------------- the proxy server -------------------------- *)

\* Requests the proxy server may receive in one run.
MaxRequests == 2

\* The credential the proxy holds.
Token == "Bearer <API_TOKEN>"

Mount == "/api/upload"

Target == "/client/v4/accounts/<ACCOUNT_ID>/stream"

\* A path is its first part and the rest; the browser sends its uploads to
\* /api/upload and its status request to /api/upload/status.
Paths ==
    { [prefix |-> Mount, rest |-> ""],
      [prefix |-> Mount, rest |-> "/status"],
      [prefix |-> "/other", rest |-> ""] }

\* Headers are name-value pairs.  The browser client sets no Authorization
\* header; another client may send one of its own.
ClientHeaders == { {}, {<<"Authorization", "Bearer client">>} }

\* setHeader(name, value): replaces the header of that name.
SetHeader(headers, name, value) ==
    {h \in headers : h[1] # name} \cup {<<name, value>>}

HeaderValues(headers, name) == {h[2] : h \in {x \in headers : x[1] = name}}

\* onProxyReq that adds the header only when the client sent none.
OnProxyReqKeepsClientHeader(headers) ==
    IF HeaderValues(headers, "Authorization") = {}
    THEN SetHeader(headers, "Authorization", Token)
    ELSE headers

\* onProxyReq: the headers of the outgoing request.
OnProxyReq(headers) == SetHeader(headers, "Authorization", Token)

\* pathRewrite
PathRewrite(path) ==
    IF path.prefix = Mount THEN [path EXCEPT !.prefix = Target] ELSE path

\* onProxyRes: the headers of the response to the client, the headers of
\* the upstream response having been copied to it.
OnProxyRes(proxyResHeaders) ==
    IF HeaderValues(proxyResHeaders, "stream-media-id") # {}
    THEN SetHeader(proxyResHeaders, "stream-media-id",
                   CHOOSE v \in HeaderValues(proxyResHeaders, "stream-media-id") : TRUE)
    ELSE proxyResHeaders

\* cors(): the header added to every response.
Cors(headers) == SetHeader(headers, "Access-Control-Allow-Origin", "*")

NoMessage == [path |-> [prefix |-> "", rest |-> ""], headers |-> {}, status |-> 0]

Message(path, headers, status) ==
    [path |-> path, headers |-> headers, status |-> status]

\* What the upstream API answers: it accepts the request only with the
\* credential, and may name the media it registered.
UpstreamAnswers(req) ==
    IF HeaderValues(req.headers, "Authorization") = {Token}
    THEN { Message(req.path, hs, 200) :
             hs \in { {}, {<<"stream-media-id", "media">>} } }
    ELSE { Message(req.path, {}, 401) }

\* A client sends a request to the server.
ClientSend(path, headers) ==
    /\ Len(http) < MaxRequests
    /\ http' = Append(http, [stage |-> "received",
                             request |-> Message(path, headers, 0),
                             proxyReq |-> NoMessage,
                             proxyRes |-> NoMessage,
                             response |-> NoMessage])
    /\ UNCHANGED appVars

AtStage(i, stage) == i \in 1..Len(http) /\ http[i].stage = stage

\* app.use('/api/upload', tusProxy): the request is sent on to the target.
ProxyForward(i) ==
    /\ AtStage(i, "received")
    /\ http[i].request.path.prefix = Mount
    /\ http' = [http EXCEPT
                  ![i].stage = "forwarded",
                  ![i].proxyReq = Message(PathRewrite(http[i].request.path),
                                          OnProxyReq(http[i].request.headers), 0)]
    /\ UNCHANGED appVars

\* No route matches: the server answers 404 itself.
NotFound(i) ==
    /\ AtStage(i, "received")
    /\ http[i].request.path.prefix # Mount
    /\ http' = [http EXCEPT
                  ![i].stage = "returned",
                  ![i].response = Message(http[i].request.path, Cors({}), 404)]
    /\ UNCHANGED appVars

UpstreamRespond(i) ==
    /\ AtStage(i, "forwarded")
    /\ \E res \in UpstreamAnswers(http[i].proxyReq) :
          http' = [http EXCEPT ![i].stage = "answered", ![i].proxyRes = res]
    /\ UNCHANGED appVars

\* The upstream response is passed back to the client.
ProxyReturn(i) ==
    /\ AtStage(i, "answered")
    /\ http' = [http EXCEPT
                  ![i].stage = "returned",
                  ![i].response = Message(http[i].request.path,
                                          Cors(OnProxyRes(http[i].proxyRes.headers)),
                                          http[i].proxyRes.status)]
    /\ UNCHANGED appVars

Requests == 1..MaxRequests

ProxyNext ==
    \/ \E path \in Paths : \E headers \in ClientHeaders : ClientSend(path, headers)
    \/ \E i \in Requests : ProxyForward(i)
    \/ \E i \in Requests : NotFound(i)
    \/ \E i \in Requests : UpstreamRespond(i)
    \/ \E i \in Requests : ProxyReturn(i)

SpecProxy == Init /\ [][ProxyNext]_vars

(* ------------------------------ properties ----------------------------- *)

Created == 1..Len(tus)

Live(u) == tus[u].state = "running"

Terminal(s) == s.kind \in {StComplete.kind, StCancelled.kind, StFailed("").kind}

\* C1: whenever an upload the component started has neither succeeded,
\* failed nor been aborted, the Cancel button is rendered.
C1_CancelRenderedWhileLive ==
    \A u \in Created : Live(u) => mounted /\ CancelRendered

\* C2: once the status line shows a terminal status, only handleFileChange
\* or handleUpload changes it.
C2_TerminalStatusStays ==
    [][Terminal(uploadStatus) /\ uploadStatus' # uploadStatus
         => (\E sel \in Selections : HandleFileChange(sel)) \/ HandleUpload]_vars

\* C3: after an upload has succeeded, mediaId eventually is the media ID of
\* that upload and the Media ID block is rendered, whatever the outcome of
\* the status request.
C3_MediaIdEventuallyShown ==
    \A u \in Uploads :
        [](u \in Created /\ tus[u].state = "succeeded"
             => <>(mediaId = MediaIdOf(u) /\ MediaInfoRendered))

\* C5: the step in which the library reports the failure of upload u with
\* an error sets the status line to 'Upload failed: ' and the message of
\* that error, and leaves file, progress, mediaId and upload as they were.
C5_OnErrorSetsStatusOnly ==
    [][\A u \in Created :
          Live(u) /\ tus'[u].state = "failed"
            => /\ uploadStatus' = StFailed(tus'[u].error)
               /\ UNCHANGED <<file, progress, mediaId, upload>>]_vars

C5_Witness ==
    \E u \in Created :
        /\ tus[u].state = "failed"
        /\ uploadStatus = StFailed(tus[u].error)
        /\ progress > 0
        /\ file # tus[u].file

\* C6: once the component is unmounted, abort() has been called on the
\* upload it held and no upload it started is still running.
C6_NoLiveUploadAfterUnmount ==
    ~mounted =>
        /\ upload # 0 => tus[upload].abortCalled
        /\ \A u \in Created : ~Live(u)

\* An upload that was in progress, and not cancelled, when the component
\* unmounted.
C6_Witness ==
    /\ ~mounted
    /\ upload # 0
    /\ tus[upload].state = "aborted"
    /\ uploadStatus.kind = StUploading(0).kind

\* The byte counts of the last onProgress call, while its status is shown.
LastSent == tus[upload].sent

LastTotal == FileSize(tus[upload].file)

ProgressShown == uploadStatus.kind = StUploading(0).kind

Abs(x) == IF x < 0 THEN -x ELSE x

\* progress is a hundredth nearest to bytesUploaded * 100 / bytesTotal.
NearestHundredth ==
    2 * Abs(progress * LastTotal - Full * LastSent) <= LastTotal

\* C7 as amended: after onProgress(bytesUploaded, bytesTotal) the progress
\* is the percentage rounded to two decimals, lies in [0, 100], is 0 when
\* bytesUploaded = 0 and 100 when bytesUploaded = bytesTotal; it is 0 only
\* for at most 0.005 percent and 100 only for at least 99.995 percent.
C7_ProgressRounded ==
    ProgressShown =>
        /\ progress = uploadStatus.pct
        /\ NearestHundredth
        /\ 0 <= progress /\ progress <= Full
        /\ LastSent = 0 => progress = 0
        /\ LastSent = LastTotal => progress = Full
        /\ progress = 0 => 2 * Full * LastSent <= LastTotal
        /\ progress = Full => 2 * Full * (LastTotal - LastSent) <= LastTotal

\* A percentage shown as 100 while bytes are still missing.
C7_Witness ==
    /\ ProgressShown
    /\ progress = Full
    /\ LastSent < LastTotal

\* C7 as claimed: moreover the progress is 0 only if bytesUploaded = 0 and
\* 100 only if bytesUploaded = bytesTotal.
C7_ProgressFaithful ==
    ProgressShown =>
        /\ NearestHundredth
        /\ 0 <= progress /\ progress <= Full
        /\ progress = 0 => LastSent = 0
        /\ progress = Full => LastSent = LastTotal

\* C8: whenever an upload the component started has neither succeeded,
\* failed nor been aborted, the Upload button is disabled.
C8_UploadDisabledWhileLive ==
    \A u \in Created : Live(u) => UploadDisabled

\* C9: at most one upload is running, it is the one held in the upload
\* state, and abort() has been called on every earlier one.
C9_AtMostOneLive ==
    \A u \in Created :
        /\ Live(u) => u = upload
        /\ u # upload => tus[u].abortCalled /\ ~Live(u)

\* A second upload running after the first, which never showed the Cancel
\* button, was aborted.
C9_Witness ==
    /\ Len(tus) >= 2
    /\ tus[1].state = "aborted"
    /\ tus[1].sent = 0
    /\ Live(2)

\* C10: handleUpload without a file only sets the status line to 'Please
\* select a file first'; with a file it sets it to 'Starting upload...',
\* creates one upload for that file, stores it and starts it, and starts no
\* other.
C10_HandleUploadContract ==
    [][HandleUpload =>
        IF file = 0
        THEN /\ uploadStatus' = StNoFile
             /\ tus' = tus
             /\ UNCHANGED <<file, progress, mediaId, upload>>
        ELSE /\ uploadStatus' = StStarting
             /\ Len(tus') = Len(tus) + 1
             /\ tus'[Len(tus')].file = file
             /\ tus'[Len(tus')].state = "running"
             /\ upload' = Len(tus')
             /\ \A u \in Created : tus'[u].state = "running" => Live(u)]_vars

\* handleUpload was invoked with no file selected.
C10_Witness ==
    /\ uploadStatus = StNoFile
    /\ file = 0
    /\ tus = <<>>

Carries(msg, value) == \E h \in msg.headers : h[2] = value

C11_HandleFileChangeFrame ==
    [][\A sel \in Selections :
          HandleFileChange(sel) =>
              IF Len(sel) > 0
              THEN /\ file' = sel[1]
                   /\ uploadStatus' = StSelected
                   /\ progress' = 0
                   /\ UNCHANGED <<mediaId, upload, tus, fetches>>
              ELSE UNCHANGED appVars]_vars

\* Another file was selected while an upload that had made progress was
\* running and the media ID of an earlier one was shown.
C11_Witness ==
    /\ uploadStatus = StSelected
    /\ progress = 0
    /\ mediaId # 0
    /\ upload # 0
    /\ tus[upload].state = "running"
    /\ tus[upload].sent > 0
    /\ file # tus[upload].file

====
